---- MODULE Spec2Model ----
(***************************************************************************)
(* A model of glide's core (src/glide/core.py): the Node base class and    *)
(* its argument resolution, SkipFalseNode, the Reducer, the futures based  *)
(* fan-out push and the (parallel) Glider runners.                         *)
(*                                                                         *)
(* Three specifications share the module, one per group of components:     *)
(*   Spec         one node: context, GlobalState, process()                *)
(*   SpecReducer  one Reducer through the passes of a pipeline             *)
(*   SpecExec     one call of Glider.consume / ParaGlider.consume /        *)
(*                FuturesPushNode._push with its executor and tasks        *)
(* The variables of the other groups stay at their idle value.             *)
(***************************************************************************)
EXTENDS Naturals, Integers, Sequences, FiniteSets, TLC

VARIABLES
    \* ---- one Node (Spec)
    node_class,       \* "Node" | "SkipFalseNode"
    run_args,         \* self.run_args: the required positionals, in order
    run_kwargs,       \* self.run_kwargs: <<name, default>> pairs, in order
    ctor_kwargs,      \* history: the **default_context given to __init__
    default_context,  \* self.default_context
    context,          \* self.context
    global_state,     \* self.global_state (shared by the pipeline)
    n_updates,        \* history: update_context calls so far
    ctx_aliased,      \* whether self.context is the dict self.default_context
    ctx_op,           \* history: the last context operation
    last,             \* observation of the most recent process(item) call
    first,            \* history: the first call since the last context operation
    \* ---- one Reducer (SpecReducer)
    red_pc,           \* "idle" | "running" | "ended" | "aborted"
    results,          \* self.results
    delivered,        \* history: items delivered in the current pass
    pushed,           \* history: what the Reducer pushed in the current pass
    pass_no,          \* history: passes started so far
    earlier,          \* history: items delivered in the earlier passes
    \* ---- one executor call (SpecExec)
    kind,             \* which consume / _push is running
    data,             \* the dataset (consume) or the item (_push)
    max_workers,      \* executor._max_workers
    n_down,           \* len(self._downstream_nodes) of the push node
    split_mode,       \* context.get("split", False) of the push node
    node_contexts,    \* the **node_contexts overrides, in dict order
    node_defaults,    \* default_context of each node of the pipeline
    pipes,            \* pipeline instance -> node -> live context
    futures,          \* the submitted tasks
    awaited,          \* futures as_completed has already yielded
    caller_pc,        \* "start" | "await" | "shutdown" | "returned" | "raised"
    caller_err,       \* the error the caller raises ("-" when none)
    \* ---- one GliderScript.clean_up call (SpecCleanUp)
    clean,            \* self.clean: the keys of the cleanup map, in dict order
    clean_raises,     \* the keys of self.clean whose function raises
    clean_kwargs,     \* the keys of the **kwargs given to clean_up
    clean_pc,         \* "call" | "returned" | "raised"
    clean_visited,    \* history: the entries the loop has gone through
    clean_called,     \* history: the entries whose function was called
    clean_errors,     \* errors: the keys the aggregated error reports
    \* ---- one GliderScript and one call of the wrapped function (SpecCLI)
    cli_nodes,        \* glider.get_node_lookup().values(), in order
    cli_global_state, \* glider.global_state
    blacklist_arg,    \* the blacklist= argument of GliderScript
    inject,           \* self.inject: the injected names (keys of the map)
    custom_args,      \* the *script_args given to GliderScript
    blacklist,        \* self.blacklist
    script_args,      \* the Args handed to Script.__init__, in order
    cli_pc,           \* "new" | "built" | "rejected" | "converted" | "raised"
    cli_kwargs,       \* the keyword arguments the wrapped function is called with
    final_kwargs,     \* what _convert_kwargs makes of them
    cli_err,          \* the exception __init__ or _convert_kwargs raised
    \* ---- one SQLConnectionNode in one pass (SpecSQL)
    sql_context_conn, \* self.context.get("conn", None)
    sql_global_conn,  \* self.global_state.get("conn", None)
    sql_pc,           \* "new" | "begun" | "failed" | "ended"
    sql_err,          \* the error begin() raised ("-" when none)
    sql_processed,    \* history: items the node has processed in this pass
    sql_stmt,         \* observation of the most recent get_bulk_replace call
    \* ---- one SQLCursorPushMixin.do_push call (SpecPush)
    cur_all,          \* history: the rows the cursor held when do_push was called
    cur_rows,         \* the rows the cursor has still to return
    chunksize,        \* the chunksize argument (0: None, not configured)
    push_pc,          \* "call" | "loop" | "done"
    batches,          \* history: what do_push has pushed, in order
    n_fetches         \* history: fetchmany / fetchall calls so far

nodeVars == <<node_class, run_args, run_kwargs, ctor_kwargs, default_context,
              context, ctx_aliased, global_state, n_updates, ctx_op, last,
              first>>
redVars  == <<red_pc, results, delivered, pushed, pass_no, earlier>>
execVars == <<kind, data, max_workers, n_down, split_mode, node_contexts,
              node_defaults, pipes, futures, awaited, caller_pc, caller_err>>
cleanVars == <<clean, clean_raises, clean_kwargs, clean_pc, clean_visited,
               clean_called, clean_errors>>
cliVars  == <<cli_nodes, cli_global_state, blacklist_arg, inject, custom_args,
             blacklist, script_args, cli_pc, cli_kwargs, final_kwargs, cli_err>>
sqlVars  == <<sql_context_conn, sql_global_conn, sql_pc, sql_err,
             sql_processed, sql_stmt>>
pushVars == <<cur_all, cur_rows, chunksize, push_pc, batches, n_fetches>>
vars     == <<nodeVars, redVars, execVars, cleanVars, cliVars, sqlVars, pushVars>>

\* What the actions of one specification leave alone.
exceptNode  == <<redVars, execVars, cleanVars, cliVars, sqlVars,
                pushVars>>
exceptRed   == <<nodeVars, execVars, cleanVars, cliVars, sqlVars,
                pushVars>>
exceptExec  == <<nodeVars, redVars, cleanVars, cliVars, sqlVars,
                pushVars>>
exceptClean == <<nodeVars, redVars, execVars, cliVars, sqlVars,
                pushVars>>
exceptCli   == <<nodeVars, redVars, execVars, cleanVars, sqlVars,
                pushVars>>
exceptSql   == <<nodeVars, redVars, execVars, cleanVars, cliVars,
                pushVars>>
exceptPush  == <<nodeVars, redVars, execVars, cleanVars, cliVars, sqlVars>>

(***************************************************************************)
(* Bounds of the model.                                                    *)
(***************************************************************************)
MaxUpdates == 2      \* update_context calls in one behaviour
MaxItems   == 3      \* items delivered to the Reducer in one pass
MaxPasses  == 2      \* passes run on the Reducer's pipeline
MaxLen     == 3      \* length of the dataset given to consume / of the pushed item
MaxWorkers == 2      \* executor._max_workers
MaxRows    == 3      \* rows the cursor holds when do_push is called
MaxChunk   == 3      \* the largest chunksize
MaxDown    == 3      \* downstream nodes of a FuturesPushNode

(***************************************************************************)
(* Values: parameter names, parameter values, items, mappings.             *)
(***************************************************************************)
Keys   == {"x", "y", "z"}
\* Values are opaque; what matters is which source a bound value came from, so
\* the three sources draw from disjoint sets.
DefaultValues == {1}     \* values of the constructor's **default_context
UpdateValues  == {2}     \* values given to update_context
GlobalValues  == {3}     \* values held by GlobalState

\* A dict over a set of keys: a function whose DOMAIN is the key set.
Dicts(K, V) == UNION {[D -> V] : D \in SUBSET K}
EmptyDict == [k \in {} |-> 0]

\* dict.update: the keys of upd are added to d, upd's values win.
DictUpdate(d, upd) ==
    [k \in (DOMAIN d) \cup (DOMAIN upd) |-> IF k \in DOMAIN upd THEN upd[k] ELSE d[k]]

\* An item is a pandas object (v rows) or any other object (an integer v).
Items == [pandas : BOOLEAN, v : {0, 1}]

is_pandas(item) == item.pandas
\* DataFrame.empty
Empty(item) == item.v = 0
\* Python truthiness of a non-pandas item
Truthy(item) == item.v # 0

(***************************************************************************)
(* GlobalState.__bool__: always true, also when the mapping is empty.      *)
(***************************************************************************)
GlobalState_bool(gs) == TRUE

(***************************************************************************)
(* Node._get_run_args: the run contract from run()'s signature.  A         *)
(* parameter is [name, kind, has_default, default]; the first one is the   *)
(* item and is skipped.                                                    *)
(***************************************************************************)
Param(n, k, h, d) == [name |-> n, kind |-> k, has_default |-> h, default |-> d]
P_item   == Param("item", "POSITIONAL_OR_KEYWORD", FALSE, 0)
P_req(n) == Param(n, "POSITIONAL_OR_KEYWORD", FALSE, 0)
P_opt(n, d) == Param(n, "POSITIONAL_OR_KEYWORD", TRUE, d)
P_varkw  == Param("kwargs", "VAR_KEYWORD", FALSE, 0)

Signatures ==
    { <<P_item, P_varkw>>,
      <<P_item, P_req("x")>>,
      <<P_item, P_req("x"), P_req("y")>>,
      <<P_item, P_req("y"), P_req("x")>>,
      <<P_item, P_req("x"), P_opt("z", 1), P_varkw>> }

RECURSIVE get_run_args_loop(_, _, _, _)
get_run_args_loop(sig, i, positionals, keywords) ==
    IF i > Len(sig) THEN [positionals |-> positionals, keywords |-> keywords]
    ELSE LET param == sig[i] IN
         IF i = 1 THEN get_run_args_loop(sig, i + 1, positionals, keywords)
         ELSE IF param.kind = "POSITIONAL_ONLY"
              THEN get_run_args_loop(sig, i + 1, Append(positionals, param.name), keywords)
         ELSE IF ~param.has_default /\ param.kind = "POSITIONAL_OR_KEYWORD"
              THEN get_run_args_loop(sig, i + 1, Append(positionals, param.name), keywords)
         ELSE IF param.kind = "POSITIONAL_OR_KEYWORD"
              THEN get_run_args_loop(sig, i + 1, positionals,
                                     Append(keywords, <<param.name, param.default>>))
         ELSE get_run_args_loop(sig, i + 1, positionals, keywords)

get_run_args(sig) == get_run_args_loop(sig, 1, <<>>, <<>>)

SeqToSet(s) == {s[i] : i \in 1..Len(s)}

(***************************************************************************)
(* Node._populate_run_args: the positional values in contract order, the   *)
(* context first and GlobalState as the backup; the first parameter found  *)
(* in neither raises.  The keyword values are the rest of the context.     *)
(***************************************************************************)
\* A resolver that passes None (0) for a missing parameter instead of raising.
RECURSIVE populate_args_defaulting(_, _, _, _)
populate_args_defaulting(ra, ctx, gs, acc) ==
    IF ra = <<>> THEN [ok |-> TRUE, args |-> acc, missing |-> "-"]
    ELSE LET run_arg == Head(ra) IN
         IF run_arg \notin DOMAIN ctx
         THEN IF GlobalState_bool(gs) /\ run_arg \in DOMAIN gs
              THEN populate_args_defaulting(Tail(ra), ctx, gs, Append(acc, gs[run_arg]))
              ELSE populate_args_defaulting(Tail(ra), ctx, gs, Append(acc, 0))
         ELSE populate_args_defaulting(Tail(ra), ctx, gs, Append(acc, ctx[run_arg]))

\* A resolver that prefers GlobalState to the context.
RECURSIVE populate_args_global_first(_, _, _, _)
populate_args_global_first(ra, ctx, gs, acc) ==
    IF ra = <<>> THEN [ok |-> TRUE, args |-> acc, missing |-> "-"]
    ELSE LET run_arg == Head(ra) IN
         IF GlobalState_bool(gs) /\ run_arg \in DOMAIN gs
         THEN populate_args_global_first(Tail(ra), ctx, gs, Append(acc, gs[run_arg]))
         ELSE IF run_arg \in DOMAIN ctx
              THEN populate_args_global_first(Tail(ra), ctx, gs, Append(acc, ctx[run_arg]))
              ELSE [ok |-> FALSE, args |-> <<>>, missing |-> run_arg]

RECURSIVE populate_args(_, _, _, _)
populate_args(ra, ctx, gs, acc) ==
    IF ra = <<>> THEN [ok |-> TRUE, args |-> acc, missing |-> "-"]
    ELSE LET run_arg == Head(ra) IN
         IF run_arg \notin DOMAIN ctx
         THEN IF GlobalState_bool(gs) /\ run_arg \in DOMAIN gs
              THEN populate_args(Tail(ra), ctx, gs, Append(acc, gs[run_arg]))
              ELSE [ok |-> FALSE, args |-> <<>>, missing |-> run_arg]
         ELSE populate_args(Tail(ra), ctx, gs, Append(acc, ctx[run_arg]))

\* A resolver that passes the whole context as keywords.
populate_kwargs_whole_context(ra, ctx) == ctx

populate_kwargs(ra, ctx) ==
    [key \in (DOMAIN ctx) \ SeqToSet(ra) |-> ctx[key]]

populate_run_args(ra, ctx, gs) ==
    LET a == populate_args(ra, ctx, gs, <<>>) IN
    [ok |-> a.ok, missing |-> a.missing, args |-> a.args,
     kwargs |-> IF a.ok THEN populate_kwargs(ra, ctx) ELSE EmptyDict]

\* A resolver that takes the values it binds out of the context.
populate_leaves_consuming(ra, ctx, gs) ==
    [context |-> [key \in (DOMAIN ctx) \ SeqToSet(ra) |-> ctx[key]],
     global_state |-> gs]

\* What _populate_run_args leaves behind: it reads self.context and
\* self.global_state (in, [], keys) and assigns to neither.
populate_leaves(ra, ctx, gs) == [context |-> ctx, global_state |-> gs]

(***************************************************************************)
(* Node._run and SkipFalseNode._run: what the wrapper around run() does    *)
(* with an item: how often it calls run() and what it pushes itself.       *)
(***************************************************************************)
Node_run(item) == [run_calls |-> 1, pushed |-> <<>>]

\* A wrapper that forgets to return after the push.
SkipFalseNode_run_no_return(item) ==
    IF is_pandas(item)
    THEN IF Empty(item) THEN [run_calls |-> 1, pushed |-> <<item>>]
                        ELSE [run_calls |-> 1, pushed |-> <<>>]
    ELSE IF ~Truthy(item) THEN [run_calls |-> 1, pushed |-> <<item>>]
                          ELSE [run_calls |-> 1, pushed |-> <<>>]

SkipFalseNode_run(item) ==
    IF is_pandas(item)
    THEN IF Empty(item) THEN [run_calls |-> 0, pushed |-> <<item>>]
                        ELSE [run_calls |-> 1, pushed |-> <<>>]
    ELSE IF ~Truthy(item) THEN [run_calls |-> 0, pushed |-> <<item>>]
                          ELSE [run_calls |-> 1, pushed |-> <<>>]

NoCall == [called |-> FALSE, item |-> [pandas |-> FALSE, v |-> 0], outcome |-> "none",
           missing |-> "-", args |-> <<>>, kwargs |-> EmptyDict,
           run_calls |-> 0, pushed |-> <<>>]

NoFirst == [n_calls |-> 0, context |-> EmptyDict, global_state |-> EmptyDict,
            outcome |-> "none", missing |-> "-", args |-> <<>>,
            kwargs |-> EmptyDict]

(***************************************************************************)
(* Node.process(item): resolve, then _run.  run() itself is the subclass's *)
(* code: it returns or raises (run_raises).                                *)
(***************************************************************************)
process(cls, ra, ctx, gs, item, run_raises) ==
    LET r == populate_run_args(ra, ctx, gs) IN
    IF ~r.ok
    THEN [called |-> TRUE, item |-> item, outcome |-> "MissingArgument",
          missing |-> r.missing, args |-> <<>>, kwargs |-> EmptyDict,
          run_calls |-> 0, pushed |-> <<>>]
    ELSE LET w == IF cls = "SkipFalseNode" THEN SkipFalseNode_run(item)
                                           ELSE Node_run(item) IN
         [called |-> TRUE, item |-> item,
          outcome |-> IF w.run_calls > 0 /\ run_raises THEN "RunError" ELSE "ok",
          missing |-> "-", args |-> r.args, kwargs |-> r.kwargs,
          run_calls |-> w.run_calls, pushed |-> w.pushed]

(***************************************************************************)
(* Node.update_context and Node.reset_context.                             *)
(***************************************************************************)
update_context(ctx, upd) == DictUpdate(ctx, upd)

\* A reset without the copy: the live context becomes the default dict itself.
reset_context_no_copy(dflt) == [context |-> dflt, aliased |-> TRUE]

\* self.context = self.default_context.copy(): a new dict with the defaults'
\* keys and values, which shares nothing with self.default_context.
reset_context(dflt) == [context |-> dflt, aliased |-> FALSE]

(***************************************************************************)
(* Reducer.begin / run / end.  self.results does not exist before the      *)
(* first begin().                                                          *)
(***************************************************************************)
ReducerItems == {0, 1, 2}

NoResults == [set |-> FALSE, items |-> <<>>]

\* A begin() that makes the buffer only when there is none yet.
Reducer_begin_keeps == [set |-> TRUE, items |-> results.items]

\* self.results = []
Reducer_begin == [set |-> TRUE, items |-> <<>>]

\* A run() that also pushes what it collected so far.
Reducer_run_pushes_each(res, item) == <<res.items>>

\* self.results.append(item)
Reducer_run(res, item) == [set |-> res.set, items |-> Append(res.items, item)]

\* what run() pushes: nothing
Reducer_run_pushes(res, item) == <<>>

\* self.push(self.results): what end() pushes
Reducer_end(res) == <<res.items>>

(***************************************************************************)
(* np.array_split(ary, n) for a scalar n: n <= 0 raises ValueError;        *)
(* otherwise n contiguous sections, the first len % n of them one element  *)
(* longer than the rest.                                                   *)
(***************************************************************************)
Min(a, b) == IF a < b THEN a ELSE b

array_split_raises(n) == n <= 0

SectionSize(len, n, i) == (len \div n) + (IF i <= len % n THEN 1 ELSE 0)

RECURSIVE DivPoint(_, _, _)
\* the cumulative sum of the section sizes: where section i ends
DivPoint(len, n, i) == IF i = 0 THEN 0 ELSE DivPoint(len, n, i - 1) + SectionSize(len, n, i)

\* A split that gives every section len \div n elements and the rest to the last.
array_split_rest_last(ary, n) ==
    [i \in 1..n |->
        SubSeq(ary, (i - 1) * (Len(ary) \div n) + 1,
                    IF i = n THEN Len(ary) ELSE i * (Len(ary) \div n))]

array_split(ary, n) ==
    [i \in 1..n |-> SubSeq(ary, DivPoint(Len(ary), n, i - 1) + 1, DivPoint(Len(ary), n, i))]

(***************************************************************************)
(* The pipeline the runners consume with: node "a" with run(item, x) and a *)
(* pass-through node "b" behind it.  GlobalState is empty.                 *)
(***************************************************************************)
PipelineNodes == {"a", "b"}
node_lookup_has(name) == name \in PipelineNodes
TopRunArgs == <<"x">>

\* the **node_contexts a caller may pass, in dict order: node name, update
OverrideOf(name) == IF name = "b" THEN [z |-> 2] ELSE [x |-> 2]
OverrideKeys == {<<>>, <<"a">>, <<"b">>, <<"a", "b">>, <<"b", "a">>,
                 <<"q">>, <<"a", "q">>, <<"q", "a">>}
Overrides == {[i \in 1..Len(ks) |-> <<ks[i], OverrideOf(ks[i])>>] : ks \in OverrideKeys}

ParaKinds == {"ThreadPoolParaGlider", "ProcessPoolParaGlider"}
PushKinds == {"ThreadPoolPush", "ProcessPoolPush"}
ProcessKinds == {"ProcessPoolParaGlider", "ProcessPoolPush"}

Finished(t) == t.pc \in {"done", "failed"}
Running(t) == t.pc \notin {"queued", "done", "failed"}

\* An executor exit that does not wait for its workers.
shutdown_no_wait(futs) == TRUE

\* Executor.__exit__: shutdown(wait=True) returns once every work item has run
shutdown_wait(futs) == \A i \in 1..Len(futs) : Finished(futs[i])

(***************************************************************************)
(* Idle values of each group of variables.                                 *)
(***************************************************************************)
NodeIdle ==
    /\ node_class = "-" /\ run_args = <<>> /\ run_kwargs = <<>>
    /\ ctor_kwargs = EmptyDict /\ default_context = EmptyDict
    /\ context = EmptyDict /\ ctx_aliased = FALSE /\ global_state = EmptyDict
    /\ n_updates = 0 /\ ctx_op = "-" /\ last = NoCall /\ first = NoFirst

RedIdle ==
    /\ red_pc = "-" /\ results = NoResults /\ delivered = <<>>
    /\ pushed = <<>> /\ pass_no = 0 /\ earlier = 0

ExecIdle ==
    /\ kind = "-" /\ data = <<>> /\ max_workers = 0 /\ n_down = 0
    /\ split_mode = FALSE /\ node_contexts = <<>> /\ node_defaults = EmptyDict
    /\ pipes = <<>> /\ futures = <<>> /\ awaited = {}
    /\ caller_pc = "-" /\ caller_err = "-"

CleanIdle ==
    /\ clean = <<>> /\ clean_raises = {} /\ clean_kwargs = {}
    /\ clean_pc = "-" /\ clean_visited = <<>> /\ clean_called = <<>>
    /\ clean_errors = <<>>

CliIdle ==
    /\ cli_nodes = <<>> /\ cli_global_state = EmptyDict /\ blacklist_arg = {}
    /\ inject = {} /\ custom_args = <<>> /\ blacklist = {}
    /\ script_args = <<>> /\ cli_pc = "-" /\ cli_kwargs = EmptyDict
    /\ final_kwargs = EmptyDict /\ cli_err = "-"

\* None where a connection is looked for, and no statement asked for yet.
NoConn == [present |-> FALSE, sqlalchemy |-> FALSE, sqlite |-> FALSE,
           cursor |-> FALSE]
NoStmt == [called |-> FALSE, conn |-> NoConn, rows |-> "-", outcome |-> "none",
           placeholders |-> "-"]

SqlIdle ==
    /\ sql_context_conn = NoConn /\ sql_global_conn = NoConn /\ sql_pc = "-"
    /\ sql_err = "-" /\ sql_processed = 0 /\ sql_stmt = NoStmt

PushIdle ==
    /\ cur_all = <<>> /\ cur_rows = <<>> /\ chunksize = 0 /\ push_pc = "-"
    /\ batches = <<>> /\ n_fetches = 0

(***************************************************************************)
(* Spec: one node.  Node.__init__ stores the default context, resets the   *)
(* live context to it and computes the run contract.                       *)
(***************************************************************************)
NodeInit ==
    /\ node_class \in {"Node", "SkipFalseNode"}
    /\ \E sig \in Signatures :
          /\ run_args = get_run_args(sig).positionals
          /\ run_kwargs = get_run_args(sig).keywords
    /\ ctor_kwargs \in Dicts(Keys, DefaultValues)
    /\ default_context = ctor_kwargs
    /\ context = reset_context(default_context).context
    /\ ctx_aliased = reset_context(default_context).aliased
    /\ global_state \in Dicts({"x", "y"}, GlobalValues)
    /\ n_updates = 0
    /\ ctx_op = "init"
    /\ last = NoCall
    /\ first = NoFirst

\* node.update_context(upd)
UpdateContext ==
    /\ n_updates < MaxUpdates
    /\ \E upd \in Dicts(Keys, UpdateValues) :
          context' = update_context(context, upd)
    \* the update is made in place: it shows in every name of the same dict
    /\ default_context' = IF ctx_aliased THEN context' ELSE default_context
    /\ n_updates' = n_updates + 1
    /\ ctx_op' = "update"
    /\ last' = NoCall
    /\ first' = NoFirst
    /\ UNCHANGED <<node_class, run_args, run_kwargs, ctor_kwargs,
                   ctx_aliased, global_state>>

\* node.reset_context()
ResetContext ==
    /\ context' = reset_context(default_context).context
    /\ ctx_aliased' = reset_context(default_context).aliased
    /\ ctx_op' = "reset"
    /\ last' = NoCall
    /\ first' = NoFirst
    /\ UNCHANGED <<node_class, run_args, run_kwargs, ctor_kwargs,
                   default_context, global_state, n_updates>>

\* node.process(item)
Process ==
    /\ \E item \in Items, run_raises \in BOOLEAN :
          last' = process(node_class, run_args, context, global_state, item, run_raises)
    /\ context' = populate_leaves(run_args, context, global_state).context
    /\ global_state' = populate_leaves(run_args, context, global_state).global_state
    /\ default_context' = IF ctx_aliased THEN context' ELSE default_context
    /\ first' = IF first.n_calls = 0
                THEN LET r == populate_run_args(run_args, context, global_state) IN
                     [n_calls |-> 1, context |-> context,
                      global_state |-> global_state,
                      outcome |-> IF r.ok THEN "resolved" ELSE "MissingArgument",
                      missing |-> r.missing, args |-> r.args, kwargs |-> r.kwargs]
                ELSE [first EXCEPT !.n_calls = 2]
    /\ UNCHANGED <<node_class, run_args, run_kwargs, ctor_kwargs,
                   ctx_aliased, n_updates, ctx_op>>

NodeNext ==
    \/ UpdateContext /\ UNCHANGED exceptNode
    \/ ResetContext /\ UNCHANGED exceptNode
    \/ Process /\ UNCHANGED exceptNode

Init ==
    /\ NodeInit /\ RedIdle /\ ExecIdle
    /\ CleanIdle /\ CliIdle /\ SqlIdle /\ PushIdle
Next == NodeNext
Spec == Init /\ [][Next]_vars

(***************************************************************************)
(* SpecReducer: one Reducer through the passes of its pipeline.  A pass    *)
(* (pipeline.consume) calls begin() on every node, processes the items and *)
(* then calls end() on every node; a pass in which some node raises stops  *)
(* there and end() is not called.                                          *)
(***************************************************************************)
ReducerInit ==
    /\ red_pc = "idle"
    /\ results = NoResults
    /\ delivered = <<>>
    /\ pushed = <<>>
    /\ pass_no = 0
    /\ earlier = 0

\* the pass starts: Reducer.begin()
ReducerBegin ==
    /\ red_pc \in {"idle", "ended", "aborted"}
    /\ pass_no < MaxPasses
    /\ results' = Reducer_begin
    /\ delivered' = <<>>
    /\ pushed' = <<>>
    /\ red_pc' = "running"
    /\ pass_no' = pass_no + 1
    /\ earlier' = earlier + Len(delivered)

\* an upstream node pushes an item: Reducer.process(item), which has no
\* required parameter to resolve, calls run(item, **context)
ReducerProcess ==
    /\ red_pc = "running"
    /\ Len(delivered) < MaxItems
    /\ \E item \in ReducerItems :
          /\ populate_run_args(<<>>, EmptyDict, EmptyDict).ok
          /\ results' = Reducer_run(results, item)
          /\ pushed' = pushed \o Reducer_run_pushes(results, item)
          /\ delivered' = Append(delivered, item)
    /\ UNCHANGED <<red_pc, pass_no, earlier>>

\* the items are exhausted: Reducer.end()
ReducerEnd ==
    /\ red_pc = "running"
    /\ pushed' = pushed \o Reducer_end(results)
    /\ red_pc' = "ended"
    /\ UNCHANGED <<results, delivered, pass_no, earlier>>

\* another node of the pipeline raises during the pass
ReducerAbort ==
    /\ red_pc = "running"
    /\ red_pc' = "aborted"
    /\ UNCHANGED <<results, delivered, pushed, pass_no, earlier>>

ReducerNext ==
    \/ ReducerBegin /\ UNCHANGED exceptRed
    \/ ReducerProcess /\ UNCHANGED exceptRed
    \/ ReducerEnd /\ UNCHANGED exceptRed
    \/ ReducerAbort /\ UNCHANGED exceptRed

InitReducer ==
    /\ NodeIdle /\ ReducerInit /\ ExecIdle
    /\ CleanIdle /\ CliIdle /\ SqlIdle /\ PushIdle
SpecReducer == InitReducer /\ [][ReducerNext]_vars

\* C5: during a pass the Reducer pushes nothing while items arrive, and at the
\* end of the pass it has pushed exactly once, the delivered items in arrival
\* order (the empty sequence when nothing was delivered).
C5_ReducerEmitsOnce ==
    /\ red_pc = "running" => (pushed = <<>> /\ results.items = delivered)
    /\ red_pc = "ended" => pushed = <<delivered>>

C5_Witness ==
    /\ red_pc = "ended" /\ pass_no = 2
    /\ delivered = <<2, 0, 1>> /\ pushed = <<delivered>>

\* C21: over the passes run one after the other on the same pipeline, the
\* buffer is empty when a pass begins, whatever the earlier passes delivered
\* and however they ended, and what a pass emits at its end holds the items
\* delivered in that pass only.
C21_BufferPerPass ==
    /\ (red_pc = "running" /\ delivered = <<>>) =>
          (results.set /\ results.items = <<>>)
    /\ red_pc \in {"running", "aborted"} => Len(results.items) = Len(delivered)
    /\ red_pc = "ended" =>
          \A i \in 1..Len(pushed) :
              /\ Len(pushed[i]) = Len(delivered)
              /\ \A j \in 1..Len(delivered) : pushed[i][j] = delivered[j]

\* The second pass has ended with one item, after a first pass of three.
C21_Witness ==
    /\ pass_no = 2 /\ earlier = 3
    /\ red_pc = "ended"
    /\ delivered = <<1>> /\ pushed = <<<<1>>>>

(***************************************************************************)
(* SpecExec: one call of Glider.consume, of a ParaGlider's consume or of   *)
(* FuturesPushNode._push.  A task is consume(pipeline, split,              *)
(* **node_contexts) or downstream._process(split); Glider.consume runs     *)
(* its one consume() inline.                                               *)
(*   task.pc   "queued", then "update" / "pass" / "reset" (consume) or     *)
(*             "running" (_process), then "done" or "failed"               *)
(*   task.pipe the pipeline instance the task works on: threads share      *)
(*             instance 0, a worker process gets its own pickled copy      *)
(*   task.k    iterations done of the update or reset loop                 *)
(*   task.pos  items of the payload processed                              *)
(***************************************************************************)
Task(pc0, payload, pipe, target) ==
    [pc |-> pc0, payload |-> payload, pipe |-> pipe, target |-> target,
     k |-> 0, pos |-> 0, err |-> "-"]

Dataset(len) == [i \in 1..len |-> i]

DefaultPipeline == [n \in PipelineNodes |-> reset_context(node_defaults[n]).context]

\* where consume() goes after the pass
AfterPass == IF node_contexts = <<>> THEN "done" ELSE "reset"
\* where consume() goes after update_node_contexts
AfterUpdate(payload) == IF payload = <<>> THEN AfterPass ELSE "pass"
\* where consume() starts
ConsumeEntry(payload) == IF node_contexts = <<>> THEN AfterUpdate(payload) ELSE "update"

ExecInit ==
    /\ kind \in {"Glider"} \cup ParaKinds \cup PushKinds
    /\ \E len \in 0..MaxLen : data = Dataset(len)
    /\ IF kind = "Glider" THEN max_workers = 1 ELSE max_workers \in 1..MaxWorkers
    /\ IF kind \in PushKinds
       THEN /\ n_down \in 1..MaxDown
            /\ split_mode \in BOOLEAN
            /\ node_contexts = <<>>
            /\ node_defaults = [n \in PipelineNodes |-> EmptyDict]
       ELSE /\ n_down = 0
            /\ split_mode = FALSE
            /\ node_contexts \in Overrides
            /\ \E d \in {EmptyDict, [x |-> 1]} :
                  node_defaults = [n \in PipelineNodes |-> IF n = "a" THEN d ELSE EmptyDict]
    /\ pipes = [p \in {0} |-> DefaultPipeline]
    /\ futures = <<>>
    /\ awaited = {}
    /\ caller_pc = "start"
    /\ caller_err = "-"

execConfig == <<kind, data, max_workers, n_down, split_mode, node_contexts, node_defaults>>

\* Glider.consume(data, **node_contexts): consume(self.pipeline, data, ...) inline
GliderConsume ==
    /\ kind = "Glider" /\ caller_pc = "start"
    /\ futures' = <<Task(ConsumeEntry(data), data, 0, 0)>>
    /\ caller_pc' = "await"
    /\ UNCHANGED <<execConfig, pipes, awaited, caller_err>>

\* its consume() returned or raised: so does Glider.consume
GliderReturn ==
    /\ kind = "Glider" /\ caller_pc = "await"
    /\ Finished(futures[1])
    /\ caller_err' = futures[1].err
    /\ caller_pc' = IF futures[1].pc = "done" THEN "returned" ELSE "raised"
    /\ UNCHANGED <<execConfig, pipes, futures, awaited>>

\* ParaGlider.consume up to the as_completed loop: split and submit
ParaConsume ==
    /\ kind \in ParaKinds /\ caller_pc = "start"
    /\ LET n == Min(Len(data), max_workers) IN
       IF array_split_raises(n)
       THEN /\ caller_err' = "ValueError"
            /\ caller_pc' = "shutdown"
            /\ UNCHANGED <<futures, pipes>>
       ELSE LET splits == array_split(data, n) IN
            /\ futures' = [i \in 1..Len(splits) |->
                             Task("queued", splits[i],
                                  IF kind \in ProcessKinds THEN i ELSE 0, 0)]
            /\ pipes' = IF kind \in ProcessKinds
                        THEN [q \in 0..Len(splits) |-> pipes[0]]
                        ELSE pipes
            /\ caller_pc' = "await"
            /\ UNCHANGED caller_err
    /\ UNCHANGED <<execConfig, awaited>>

\* FuturesPushNode._push(item) up to the as_completed loop
PushSubmit ==
    /\ kind \in PushKinds /\ caller_pc = "start"
    /\ IF split_mode
       THEN LET splits == array_split(data, n_down) IN
            futures' = [i \in 1..n_down |-> Task("queued", splits[i], 0, i)]
       ELSE futures' = [i \in 1..n_down |-> Task("queued", data, 0, i)]
    /\ caller_pc' = "await"
    /\ UNCHANGED <<execConfig, pipes, awaited, caller_err>>

\* a worker of the pool takes the task
TaskStart(i) ==
    /\ futures[i].pc = "queued"
    /\ Cardinality({j \in 1..Len(futures) : Running(futures[j])}) < max_workers
    /\ futures' = [futures EXCEPT ![i].pc =
                      IF kind \in PushKinds THEN "running" ELSE ConsumeEntry(futures[i].payload)]
    /\ UNCHANGED <<execConfig, pipes, awaited, caller_pc, caller_err>>

\* one iteration of update_node_contexts
TaskUpdate(i) ==
    LET t == futures[i]
        name == node_contexts[t.k + 1][1]
        upd == node_contexts[t.k + 1][2] IN
    /\ t.pc = "update"
    /\ IF ~node_lookup_has(name)
       THEN /\ futures' = [futures EXCEPT ![i].pc = "failed", ![i].err = "AssertionError"]
            /\ UNCHANGED pipes
       ELSE /\ pipes' = [pipes EXCEPT ![t.pipe][name] = update_context(@, upd)]
            /\ futures' = [futures EXCEPT
                  ![i].k = IF t.k + 1 = Len(node_contexts) THEN 0 ELSE t.k + 1,
                  ![i].pc = IF t.k + 1 = Len(node_contexts)
                            THEN AfterUpdate(t.payload) ELSE "update"]
    /\ UNCHANGED <<execConfig, awaited, caller_pc, caller_err>>

\* pipeline.consume processes the next item: the top node resolves its
\* arguments against its live context and runs; run() may raise
TaskProcess(i) ==
    LET t == futures[i] IN
    /\ t.pc = "pass"
    /\ \E run_raises \in BOOLEAN :
          LET r == process("Node", TopRunArgs, pipes[t.pipe]["a"], EmptyDict,
                           [pandas |-> FALSE, v |-> 1], run_raises) IN
          IF r.outcome # "ok"
          THEN futures' = [futures EXCEPT ![i].pc = "failed", ![i].err = r.outcome]
          ELSE futures' = [futures EXCEPT
                  ![i].pos = t.pos + 1,
                  ![i].pc = IF t.pos + 1 = Len(t.payload) THEN AfterPass ELSE "pass"]
    /\ UNCHANGED <<execConfig, pipes, awaited, caller_pc, caller_err>>

\* one iteration of reset_node_contexts
TaskReset(i) ==
    LET t == futures[i]
        name == node_contexts[t.k + 1][1] IN
    /\ t.pc = "reset"
    /\ IF ~node_lookup_has(name)
       THEN /\ futures' = [futures EXCEPT ![i].pc = "failed", ![i].err = "AssertionError"]
            /\ UNCHANGED pipes
       ELSE /\ pipes' = [pipes EXCEPT ![t.pipe][name] = reset_context(node_defaults[name]).context]
            /\ futures' = [futures EXCEPT
                  ![i].k = t.k + 1,
                  ![i].pc = IF t.k + 1 = Len(node_contexts) THEN "done" ELSE "reset"]
    /\ UNCHANGED <<execConfig, awaited, caller_pc, caller_err>>

\* downstream._process(split) returns or raises
TaskDownstream(i) ==
    /\ futures[i].pc = "running"
    /\ \E raises \in BOOLEAN :
          futures' = [futures EXCEPT ![i].pc = IF raises THEN "failed" ELSE "done",
                                     ![i].err = IF raises THEN "RunError" ELSE "-"]
    /\ UNCHANGED <<execConfig, pipes, awaited, caller_pc, caller_err>>

\* for future in as_completed(futures): result = future.result()
CallerAwait ==
    /\ kind # "Glider" /\ caller_pc = "await"
    /\ \E i \in (1..Len(futures)) \ awaited :
          /\ Finished(futures[i])
          /\ IF futures[i].pc = "failed"
             THEN /\ caller_err' = futures[i].err
                  /\ caller_pc' = "shutdown"
                  /\ UNCHANGED awaited
             ELSE /\ awaited' = awaited \cup {i}
                  /\ caller_pc' = IF awaited' = 1..Len(futures) THEN "shutdown" ELSE "await"
                  /\ UNCHANGED caller_err
    /\ UNCHANGED <<execConfig, pipes, futures>>

\* leaving the with block, normally or with the exception in flight
CallerShutdown ==
    /\ caller_pc = "shutdown"
    /\ shutdown_wait(futures)
    /\ caller_pc' = IF caller_err = "-" THEN "returned" ELSE "raised"
    /\ UNCHANGED <<execConfig, pipes, futures, awaited, caller_err>>

ExecNext ==
    \/ GliderConsume /\ UNCHANGED exceptExec
    \/ GliderReturn /\ UNCHANGED exceptExec
    \/ ParaConsume /\ UNCHANGED exceptExec
    \/ PushSubmit /\ UNCHANGED exceptExec
    \/ \E i \in 1..Len(futures) : TaskStart(i) /\ UNCHANGED exceptExec
    \/ \E i \in 1..Len(futures) : TaskUpdate(i) /\ UNCHANGED exceptExec
    \/ \E i \in 1..Len(futures) : TaskProcess(i) /\ UNCHANGED exceptExec
    \/ \E i \in 1..Len(futures) : TaskReset(i) /\ UNCHANGED exceptExec
    \/ \E i \in 1..Len(futures) : TaskDownstream(i) /\ UNCHANGED exceptExec
    \/ CallerAwait /\ UNCHANGED exceptExec
    \/ CallerShutdown /\ UNCHANGED exceptExec

InitExec ==
    /\ NodeIdle /\ RedIdle /\ ExecInit
    /\ CleanIdle /\ CliIdle /\ SqlIdle /\ PushIdle
SpecExec == InitExec /\ [][ExecNext]_vars

(***************************************************************************)
(* SpecCleanUp: GliderScript.clean_up(kwargs).  self.clean maps the name   *)
(* of a script argument to the function that tears its value down.  One    *)
(* turn of the loop, for the entry key:                                    *)
(*   - key not in kwargs: the message is appended to errors, then          *)
(*     kwargs[key] (in the dbg call) raises KeyError, which the bare       *)
(*     except swallows; func is not called;                                *)
(*   - key in kwargs: func(kwargs[key]) is called; if it raises, the bare  *)
(*     except swallows the exception and errors is left as it was.         *)
(***************************************************************************)
CleanKeys == {"conn", "cursor", "file"}

RECURSIVE DistinctSeqs(_)
DistinctSeqs(S) ==
    {<<>>} \cup UNION {{<<k>> \o t : t \in DistinctSeqs(S \ {k})} : k \in S}

NoCleanUp == [visited |-> <<>>, called |-> <<>>, errors |-> <<>>]

clean_up_entry(key, kwargs, st) ==
    [visited |-> Append(st.visited, key),
     called  |-> IF key \in kwargs THEN Append(st.called, key) ELSE st.called,
     errors  |-> IF key \notin kwargs THEN Append(st.errors, key) ELSE st.errors]

RECURSIVE clean_up_loop(_, _, _)
clean_up_loop(items, kwargs, st) ==
    IF items = <<>> THEN st
    ELSE clean_up_loop(Tail(items), kwargs, clean_up_entry(Head(items), kwargs, st))

clean_up(cl, kwargs) ==
    IF cl = <<>>
    THEN [pc |-> "returned", st |-> NoCleanUp]
    ELSE LET st == clean_up_loop(cl, kwargs, NoCleanUp) IN
         [pc |-> IF st.errors # <<>> THEN "raised" ELSE "returned", st |-> st]

CleanUpInit ==
    /\ clean \in DistinctSeqs(CleanKeys)
    /\ clean_raises \in SUBSET SeqToSet(clean)
    /\ clean_kwargs \in SUBSET CleanKeys
    /\ clean_pc = "call"
    /\ clean_visited = <<>> /\ clean_called = <<>> /\ clean_errors = <<>>

\* script.clean_up(**kwargs)
CleanUp ==
    /\ clean_pc = "call"
    /\ LET r == clean_up(clean, clean_kwargs) IN
          /\ clean_pc' = r.pc
          /\ clean_visited' = r.st.visited
          /\ clean_called' = r.st.called
          /\ clean_errors' = r.st.errors
    /\ UNCHANGED <<clean, clean_raises, clean_kwargs>>

CleanUpNext ==
    \/ CleanUp /\ UNCHANGED exceptClean

InitCleanUp ==
    /\ NodeIdle /\ RedIdle /\ ExecIdle
    /\ CleanUpInit /\ CliIdle /\ SqlIdle /\ PushIdle
SpecCleanUp == InitCleanUp /\ [][CleanUpNext]_vars

\* The entries of the cleanup map that failed: the named argument was
\* missing, or the teardown function was called and raised.
FailedEntries ==
    {k \in SeqToSet(clean) : k \notin clean_kwargs \/ k \in clean_raises}

\* C13: clean_up goes through every entry of the cleanup map, also after a
\* failed one, and raises the aggregated error iff at least one entry
\* failed (argument missing, or teardown function raised).
C13_AggregatedCleanup ==
    clean_pc \in {"returned", "raised"} =>
        /\ clean_visited = clean
        /\ SeqToSet(clean_called) = SeqToSet(clean) \cap clean_kwargs
        /\ (clean_pc = "raised") <=> (FailedEntries # {})

(***************************************************************************)
(* SpecCLI: GliderScript, the command-line surface of a Glider.            *)
(*                                                                         *)
(* Names.  A node name, a parameter name or a flat argument name is        *)
(* modelled as the sequence of its underscore-free segments: "a_b" is      *)
(* <<"a", "b">>, and the empty string is the one empty segment <<"">>.     *)
(* Then "%s_%s" % (n, p) is n \o p, key.split("_") is the sequence itself  *)
(* and "_".join(parts) is parts.                                           *)
(*                                                                         *)
(* Values carry their Python type: bool(value) is v # 0.                   *)
(***************************************************************************)
None     == [t |-> "NoneType", v |-> 0]
PyFalse  == [t |-> "bool", v |-> 0]
PyTrue   == [t |-> "bool", v |-> 1]
PyInt(n) == [t |-> "int", v |-> n]
PyStr(n) == [t |-> "str", v |-> n]       \* a non-empty string, told apart by n
py_bool(val) == val.v # 0
py_type(val) == val.t

SCRIPT_DATA_ARG == <<"data">>
EmptyName == <<"">>

NodeNames  == {<<"a">>, <<"b">>, <<"a", "b">>}
ParamNames == {<<"x">>, <<"y">>, <<"b", "x">>}

\* The run contracts of the nodes of the pipeline, as _get_run_args leaves
\* them in node.run_args / node.run_kwargs.
Contracts ==
    {[run_args |-> <<<<"x">>>>, run_kwargs |-> <<>>],                    \* run(item, x)
     [run_args |-> <<>>, run_kwargs |-> <<<< <<"y">>, PyInt(5)>>>>],     \* run(item, y=5)
     [run_args |-> <<<<"x">>>>, run_kwargs |-> <<<< <<"y">>, PyFalse>>>>], \* run(item, x, y=False)
     [run_args |-> <<>>, run_kwargs |-> <<<< <<"y">>, PyTrue>>>>],       \* run(item, y=True)
     [run_args |-> <<<<"b", "x">>>>, run_kwargs |-> <<>>]}               \* run(item, b_x)

CliNode(name, contract, ctx) ==
    [name |-> name, run_args |-> contract.run_args,
     run_kwargs |-> contract.run_kwargs, context |-> ctx]

\* Arg(...) of toolbox, as the script sees it.  Arg.name is the flag without
\* its dashes; custom marks an Arg the caller passed in and origin names the
\* (node, parameter) the Arg object was made for.
MkArg(origin, name, required, action, type, default) ==
    [name |-> name, required |-> required, action |-> action, type |-> type,
     default |-> default, nargs |-> "-", custom |-> FALSE, origin |-> origin]

NoArg == [name |-> <<>>, required |-> FALSE, action |-> "-", type |-> "-",
          default |-> None, nargs |-> "-", custom |-> FALSE, origin |-> <<>>]

_get_script_arg_name(node_name, arg_name) == node_name \o arg_name

\* A blacklist that only knows bare parameter names.
blacklisted_bare_only(bl, node_name, arg_name) == arg_name \in bl

blacklisted(bl, node_name, arg_name) ==
    \/ arg_name \in bl
    \/ _get_script_arg_name(node_name, arg_name) \in bl

\* GliderScript.__init__: every injected name joins the blacklist.
init_blacklist(bl_arg, inj) == bl_arg \cup inj

\* A surface builder for which a context or GlobalState value supplies the
\* default but leaves the argument required.
_get_script_arg_keeps_required(bl, inj, gs, node, arg_name, required, default) ==
    IF blacklisted(bl, node.name, arg_name) THEN NoArg
    ELSE LET d == IF arg_name \in inj THEN None
                  ELSE IF arg_name \in DOMAIN node.context THEN node.context[arg_name]
                  ELSE IF arg_name \in DOMAIN gs THEN gs[arg_name]
                  ELSE default
             name == _get_script_arg_name(node.name, arg_name)
         IN  IF py_bool(d) /\ py_type(d) = "bool"
             THEN MkArg(<<node.name, arg_name>>, name, required, "store_false", "-", d)
             ELSE MkArg(<<node.name, arg_name>>, name, required, "store",
                        IF py_bool(d) THEN py_type(d) ELSE "str", d)

\* GliderScript._get_script_arg: None (NoArg) for a blacklisted parameter,
\* else the Arg for --<node>_<param>.
_get_script_arg(bl, inj, gs, node, arg_name, required, default) ==
    IF blacklisted(bl, node.name, arg_name) THEN NoArg
    ELSE LET rd == IF arg_name \in inj
                   THEN [required |-> FALSE, default |-> None]
                   ELSE IF arg_name \in DOMAIN node.context
                   THEN [required |-> FALSE, default |-> node.context[arg_name]]
                   ELSE IF arg_name \in DOMAIN gs
                   THEN [required |-> FALSE, default |-> gs[arg_name]]
                   ELSE [required |-> required, default |-> default]
             \* arg_type = str; if default: arg_type = type(default)
             arg_type == IF py_bool(rd.default) THEN py_type(rd.default) ELSE "str"
             name == _get_script_arg_name(node.name, arg_name)
         IN  IF arg_type = "bool"
             THEN MkArg(<<node.name, arg_name>>, name, rd.required,
                        IF py_bool(rd.default) THEN "store_false" ELSE "store_true",
                        "-", rd.default)
             ELSE MkArg(<<node.name, arg_name>>, name, rd.required, "store", arg_type, rd.default)

\* script_args[arg.name] = arg on an OrderedDict: a known key keeps its place.
IndexOfArg(args, name) ==
    IF \E i \in 1..Len(args) : args[i].name = name
    THEN CHOOSE i \in 1..Len(args) : args[i].name = name
    ELSE 0

od_put(args, arg) ==
    IF IndexOfArg(args, arg.name) = 0 THEN Append(args, arg)
    ELSE [args EXCEPT ![IndexOfArg(args, arg.name)] = arg]

RECURSIVE script_args_of_run_args(_, _, _, _, _, _)
script_args_of_run_args(bl, inj, gs, node, ra, acc) ==
    IF ra = <<>> THEN acc
    ELSE LET script_arg == _get_script_arg(bl, inj, gs, node, Head(ra), TRUE, None) IN
         script_args_of_run_args(bl, inj, gs, node, Tail(ra),
             IF script_arg = NoArg THEN acc ELSE od_put(acc, script_arg))

RECURSIVE script_args_of_run_kwargs(_, _, _, _, _, _)
script_args_of_run_kwargs(bl, inj, gs, node, rk, acc) ==
    IF rk = <<>> THEN acc
    ELSE LET script_arg == _get_script_arg(bl, inj, gs, node, Head(rk)[1], FALSE,
                                           Head(rk)[2]) IN
         script_args_of_run_kwargs(bl, inj, gs, node, Tail(rk),
             IF script_arg = NoArg THEN acc ELSE od_put(acc, script_arg))

RECURSIVE script_args_of_nodes(_, _, _, _, _)
script_args_of_nodes(bl, inj, gs, nodes, acc) ==
    IF nodes = <<>> THEN acc
    ELSE LET node == Head(nodes)
             a1 == script_args_of_run_args(bl, inj, gs, node, node.run_args, acc)
             a2 == script_args_of_run_kwargs(bl, inj, gs, node, node.run_kwargs, a1)
         IN  script_args_of_nodes(bl, inj, gs, Tail(nodes), a2)

RECURSIVE script_args_of_custom(_, _)
script_args_of_custom(custom, acc) ==
    IF custom = <<>> THEN acc
    ELSE script_args_of_custom(Tail(custom), od_put(acc, Head(custom)))

DataArg == [MkArg(<<>>, SCRIPT_DATA_ARG, TRUE, "store", "str", None) EXCEPT !.nargs = "+"]

\* The assertion of _get_script_args on the custom args.
custom_args_ok(bl, custom) ==
    \A i \in 1..Len(custom) : ~blacklisted(bl, EmptyName, custom[i].name)

\* GliderScript._get_script_args
_get_script_args(bl, inj, gs, nodes, custom) ==
    LET a0 == IF ~blacklisted(bl, EmptyName, SCRIPT_DATA_ARG) THEN <<DataArg>> ELSE <<>>
        a1 == script_args_of_nodes(bl, inj, gs, nodes, a0)
    IN  script_args_of_custom(custom, a1)

(***************************************************************************)
(* The call of the wrapped function: _node_arg_converter's inner() hands   *)
(* the parsed keyword arguments to _convert_kwargs.                        *)
(***************************************************************************)
PyDict(d) == [t |-> "dict", v |-> d]
NodeNameSet(nodes) == {nodes[i].name : i \in 1..Len(nodes)}

\* node_contexts.setdefault(node_name, {})[arg_name] = value
ctx_set(ctxs, node_name, arg_name, value) ==
    LET old == IF node_name \in DOMAIN ctxs THEN ctxs[node_name] ELSE EmptyDict
        new == [k \in DOMAIN old \cup {arg_name} |->
                    IF k = arg_name THEN value ELSE old[k]]
    IN  [n \in DOMAIN ctxs \cup {node_name} |->
            IF n = node_name THEN new ELSE ctxs[n]]

\* The fold of _get_injected_node_contexts.  st.arg_name is the function's
\* local arg_name, the loop variable of the run_args loops: it keeps its last
\* value after a loop ends and is unbound (<<>>) until a loop has assigned it.
NoInjected == [err |-> "-", ctxs |-> EmptyDict, arg_name |-> <<>>]

RECURSIVE injected_of_run_args(_, _, _, _, _)
injected_of_run_args(inj, kwargs, node, ra, st) ==
    IF ra = <<>> \/ st.err # "-" THEN st
    ELSE LET arg_name == Head(ra)
             st1 == IF arg_name \notin inj THEN [st EXCEPT !.arg_name = arg_name]
                    ELSE IF arg_name \notin DOMAIN kwargs
                    THEN [st EXCEPT !.err = "KeyError", !.arg_name = arg_name]
                    ELSE [st EXCEPT !.arg_name = arg_name,
                             !.ctxs = ctx_set(st.ctxs, node.name, arg_name,
                                              kwargs[arg_name])]
         IN  injected_of_run_args(inj, kwargs, node, Tail(ra), st1)

\* The keyword loop of the code: the value is stored under [arg_name].
RECURSIVE injected_of_run_kwargs(_, _, _, _, _)
injected_of_run_kwargs(inj, kwargs, node, rk, st) ==
    IF rk = <<>> \/ st.err # "-" THEN st
    ELSE LET kwarg_name == Head(rk)[1]
             st1 == IF kwarg_name \notin inj THEN st
                    ELSE IF kwarg_name \notin DOMAIN kwargs
                    THEN [st EXCEPT !.err = "KeyError"]
                    ELSE IF st.arg_name = <<>>
                    THEN [st EXCEPT !.err = "UnboundLocalError"]
                    ELSE [st EXCEPT !.ctxs = ctx_set(st.ctxs, node.name, st.arg_name,
                                                     kwargs[kwarg_name])]
         IN  injected_of_run_kwargs(inj, kwargs, node, Tail(rk), st1)

RECURSIVE injected_of_nodes(_, _, _, _)
injected_of_nodes(inj, kwargs, nodes, st) ==
    IF nodes = <<>> \/ st.err # "-" THEN st
    ELSE LET node == Head(nodes)
             s1 == injected_of_run_args(inj, kwargs, node, node.run_args, st)
             s2 == injected_of_run_kwargs(inj, kwargs, node, node.run_kwargs, s1)
         IN  injected_of_nodes(inj, kwargs, Tail(nodes), s2)

\* GliderScript._get_injected_node_contexts
_get_injected_node_contexts(inj, nodes, kwargs) ==
    injected_of_nodes(inj, kwargs, nodes, NoInjected)

\* An un-flattening that takes the last segment as the parameter name.
split_key_last(key) == [node_name |-> SubSeq(key, 1, Len(key) - 1),
                        arg_name |-> <<key[Len(key)]>>]

\* key_parts = key.split("_"); node_name = key_parts[0];
\* arg_name = "_".join(key_parts[1:])
split_key(key) == [node_name |-> <<Head(key)>>, arg_name |-> Tail(key)]

\* GliderScript._convert_kwargs (the source file ends after the loop over
\* unused: the function is taken to return final_kwargs).
_convert_kwargs(inj, nodes, kwargs) ==
    LET names  == NodeNameSet(nodes)
        unused == {key \in DOMAIN kwargs : split_key(key).node_name \notin names}
        used   == DOMAIN kwargs \ unused
        by_node ==
            [n \in {split_key(key).node_name : key \in used} |->
                [a \in {split_key(key).arg_name :
                            key \in {k \in used : split_key(k).node_name = n}} |->
                    kwargs[CHOOSE key \in used : split_key(key) =
                                        [node_name |-> n, arg_name |-> a]]]]
        injected == _get_injected_node_contexts(inj, nodes, kwargs)
        merged ==
            [n \in DOMAIN by_node \cup DOMAIN injected.ctxs |->
                IF n \notin DOMAIN injected.ctxs THEN by_node[n]
                ELSE IF n \notin DOMAIN by_node THEN injected.ctxs[n]
                ELSE DictUpdate(by_node[n], injected.ctxs[n])]
    IN  IF \E key \in used : Len(key) <= 1
        THEN [err |-> "AssertionError", final_kwargs |-> EmptyDict]
        ELSE IF injected.err # "-"
        THEN [err |-> injected.err, final_kwargs |-> EmptyDict]
        ELSE [err |-> "-",
              final_kwargs |-> [key \in DOMAIN merged \cup unused |->
                                   IF key \in unused THEN kwargs[key]
                                   ELSE PyDict(merged[key])]]

\* The pipelines, constructor arguments and command lines of the model.
NamePairs == {<< <<"a">>, <<"b">> >>, << <<"a">>, <<"a", "b">> >>,
              << <<"a", "b">>, <<"b">> >>}
SingleDict(k, val) == [key \in {k} |-> val]
CliContexts == {EmptyDict, SingleDict(<<"x">>, PyStr(1)), SingleDict(<<"y">>, PyTrue)}
CliGlobalStates == {EmptyDict, SingleDict(<<"x">>, PyInt(7)),
                    SingleDict(<<"y">>, PyFalse)}
Blacklists == {{}, {<<"x">>}, {<<"a", "x">>}, {<<"y">>}}
CustomArg(name) == [MkArg(<<>>, name, FALSE, "store", "str", None) EXCEPT !.custom = TRUE]
CustomArgLists == {<<>>, <<CustomArg(<<"q", "x">>)>>, <<CustomArg(<<"a", "x">>)>>}

\* What the provider function of an injected name returns, and what the
\* parser makes of an argument given on the command line.
InjectedValue(p) == [t |-> "provided", v |-> 1]
CliValue(arg) ==
    IF arg.action = "store_true" THEN PyTrue
    ELSE IF arg.action = "store_false" THEN PyFalse
    ELSE [t |-> arg.type, v |-> 9]

\* The keyword arguments of one call: every argument of the surface but the
\* dataset, with its command-line value or its default, and the injected
\* values (get_injected_kwargs) under their bare names.
ParsedKwargs(args, inj, given) ==
    LET named == {i \in 1..Len(args) : args[i].name # SCRIPT_DATA_ARG}
        idx(key) == CHOOSE i \in named : args[i].name = key
    IN  [key \in {args[i].name : i \in named} \cup inj |->
            IF key \in inj THEN InjectedValue(key)
            ELSE IF args[idx(key)].required \/ given THEN CliValue(args[idx(key)])
            ELSE args[idx(key)].default]

\* A Glider and the arguments its cli() decorator is about to be given.
CliInit ==
    /\ \E names \in NamePairs, c1 \in Contracts, c2 \in Contracts,
          ctx \in CliContexts :
          cli_nodes = <<CliNode(names[1], c1, ctx), CliNode(names[2], c2, EmptyDict)>>
    /\ cli_global_state \in CliGlobalStates
    /\ blacklist_arg \in Blacklists
    /\ inject \in SUBSET {<<"x">>, <<"y">>}
    /\ custom_args \in CustomArgLists
    /\ blacklist = {}
    /\ script_args = <<>>
    /\ cli_pc = "new"
    /\ cli_kwargs = EmptyDict
    /\ final_kwargs = EmptyDict
    /\ cli_err = "-"

\* GliderScript(glider, *script_args, blacklist=..., inject=...)
GliderScript ==
    /\ cli_pc = "new"
    /\ blacklist' = init_blacklist(blacklist_arg, inject)
    /\ IF custom_args_ok(blacklist', custom_args)
       THEN /\ script_args' = _get_script_args(blacklist', inject, cli_global_state,
                                               cli_nodes, custom_args)
            /\ cli_pc' = "built"
            /\ cli_err' = "-"
       ELSE /\ script_args' = <<>>
            /\ cli_pc' = "rejected"
            /\ cli_err' = "AssertionError"
    /\ UNCHANGED <<cli_nodes, cli_global_state, blacklist_arg, inject,
                   custom_args, cli_kwargs, final_kwargs>>

\* inner(data, **kwargs): the script calls the wrapped function
Invoke ==
    /\ cli_pc = "built"
    /\ \E given \in BOOLEAN :
          cli_kwargs' = ParsedKwargs(script_args, inject, given)
    /\ LET r == _convert_kwargs(inject, cli_nodes, cli_kwargs') IN
          /\ final_kwargs' = r.final_kwargs
          /\ cli_err' = r.err
          /\ cli_pc' = IF r.err = "-" THEN "converted" ELSE "raised"
    /\ UNCHANGED <<cli_nodes, cli_global_state, blacklist_arg, inject,
                   custom_args, blacklist, script_args>>

CliNext ==
    \/ GliderScript /\ UNCHANGED exceptCli
    \/ Invoke /\ UNCHANGED exceptCli

InitCLI ==
    /\ NodeIdle /\ RedIdle /\ ExecIdle
    /\ CleanIdle /\ CliInit /\ SqlIdle /\ PushIdle
SpecCLI == InitCLI /\ [][CliNext]_vars

\* The parameters of a node's run contract.
ContractParams(node) ==
    SeqToSet(node.run_args) \cup {node.run_kwargs[i][1] : i \in 1..Len(node.run_kwargs)}

\* final_kwargs maps node name n to a context update that maps p to val.
UpdateMaps(n, p, val) ==
    /\ n \in DOMAIN final_kwargs
    /\ final_kwargs[n].t = "dict"
    /\ p \in DOMAIN final_kwargs[n].v
    /\ final_kwargs[n].v[p] = val

\* C11: once the wrapped function has been called, for every node whose run
\* contract has an injected parameter p, positional or keyword, the context
\* update of that node maps p to the value p's provider returned.
C11_InjectionWins ==
    cli_pc \in {"converted", "raised"} =>
        \A i \in 1..Len(cli_nodes) :
            \A p \in ContractParams(cli_nodes[i]) \cap inject :
                /\ cli_pc = "converted"
                /\ UpdateMaps(cli_nodes[i].name, p, InjectedValue(p))

\* The names of the arguments of the surface.
SurfaceNames == {script_args[i].name : i \in 1..Len(script_args)}

\* A key of the flat arguments that comes out unchanged at the top level.
PassedThrough(key) ==
    key \in DOMAIN final_kwargs /\ final_kwargs[key] = cli_kwargs[key]

UnknownFirstSegment(key) == <<Head(key)>> \notin NodeNameSet(cli_nodes)

\* No injected value is merged into the update of this node.
NoInjection(node) == ContractParams(node) \cap inject = {}

Pairs == {<<i, p>> : i \in 1..Len(cli_nodes), p \in ParamNames}
IsParam(pr) == pr[2] \in ContractParams(cli_nodes[pr[1]])
IsRequiredParam(pr) == pr[2] \in SeqToSet(cli_nodes[pr[1]].run_args)
FlatName(pr) == _get_script_arg_name(cli_nodes[pr[1]].name, pr[2])
Excluded(pr) ==
    \/ pr[2] \in blacklist_arg
    \/ FlatName(pr) \in blacklist_arg
    \/ pr[2] \in inject
OnSurface(pr) == IsParam(pr) /\ ~Excluded(pr)
ArgNamed(key) == script_args[CHOOSE i \in 1..Len(script_args) : script_args[i].name = key]
DeclaredDefault(pr) ==
    LET rk == cli_nodes[pr[1]].run_kwargs
    IN  rk[CHOOSE i \in 1..Len(rk) : rk[i][1] = pr[2]][2]
HasValue(pr) ==
    \/ pr[2] \in DOMAIN cli_nodes[pr[1]].context
    \/ pr[2] \in DOMAIN cli_global_state
EffectiveDefault(pr) ==
    IF pr[2] \in DOMAIN cli_nodes[pr[1]].context THEN cli_nodes[pr[1]].context[pr[2]]
    ELSE IF pr[2] \in DOMAIN cli_global_state THEN cli_global_state[pr[2]]
    ELSE IF IsRequiredParam(pr) THEN None
    ELSE DeclaredDefault(pr)
NoUnderscoreInNodeNames == \A i \in 1..Len(cli_nodes) : Len(cli_nodes[i].name) = 1

\* C16 as stated: every parameter that is neither blacklisted nor injected
\* has an argument n_p; distinct pairs have distinct arguments; the argument
\* is required with no default iff p is a required positional with no value
\* in the context or GlobalState; an optional parameter's argument carries
\* the declared default.  (An argument replaced by a custom one is left out.)
C16_AsStated ==
    cli_pc \in {"built", "converted"} =>
    \A pr \in Pairs : OnSurface(pr) =>
        /\ FlatName(pr) \in SurfaceNames
        /\ \A other \in Pairs : (OnSurface(other) /\ other # pr) =>
              FlatName(other) # FlatName(pr)
        /\ ~ArgNamed(FlatName(pr)).custom =>
              /\ (ArgNamed(FlatName(pr)).required
                    /\ ArgNamed(FlatName(pr)).default = None)
                  <=> (IsRequiredParam(pr) /\ ~HasValue(pr))
              /\ ~IsRequiredParam(pr) =>
                    ArgNamed(FlatName(pr)).default = DeclaredDefault(pr)

\* C16 (amended): in a pipeline whose node names contain no underscore, the
\* same, except that the default an argument carries is the context value of
\* p, else the GlobalState value, else the declared default, and an argument
\* with such a value or a declared default is not required.
C16_SurfaceSynthesis ==
    (cli_pc \in {"built", "converted"} /\ NoUnderscoreInNodeNames) =>
    \A pr \in Pairs : OnSurface(pr) =>
        /\ FlatName(pr) \in SurfaceNames
        /\ Cardinality({i \in 1..Len(script_args) :
                           script_args[i].name = FlatName(pr)}) = 1
        /\ \A other \in Pairs : (OnSurface(other) /\ other # pr) =>
              FlatName(other) # FlatName(pr)
        /\ ~ArgNamed(FlatName(pr)).custom =>
              /\ (ArgNamed(FlatName(pr)).required
                    /\ ArgNamed(FlatName(pr)).default = None)
                  <=> (IsRequiredParam(pr) /\ ~HasValue(pr))
              /\ ArgNamed(FlatName(pr)).required
                  <=> (IsRequiredParam(pr) /\ ~HasValue(pr))
              /\ ArgNamed(FlatName(pr)).default = EffectiveDefault(pr)

\* Node a with run(item, x) and x in its context, node b with
\* run(item, x, y=False): a_x is optional with the context value as default,
\* b_x is required, b_y carries False.
C16_Witness ==
    /\ cli_nodes[1].name = <<"a">> /\ cli_nodes[2].name = <<"b">>
    /\ cli_nodes[1].run_args = <<<<"x">>>> /\ cli_nodes[1].run_kwargs = <<>>
    /\ cli_nodes[1].context = SingleDict(<<"x">>, PyStr(1))
    /\ cli_nodes[2].run_args = <<<<"x">>>> /\ Len(cli_nodes[2].run_kwargs) = 1
    /\ cli_global_state = EmptyDict /\ blacklist = {} /\ custom_args = <<>>
    /\ SurfaceNames = {SCRIPT_DATA_ARG, <<"a", "x">>, <<"b", "x">>, <<"b", "y">>}
    /\ ~ArgNamed(<<"a", "x">>).required
    /\ ArgNamed(<<"a", "x">>).default = PyStr(1)
    /\ ArgNamed(<<"b", "x">>).required
    /\ ArgNamed(<<"b", "y">>).default = PyFalse
    /\ cli_pc = "converted"

\* The arguments the surface builder synthesized for node parameters.
Synthesized ==
    {i \in 1..Len(script_args) :
        ~script_args[i].custom /\ script_args[i].name # SCRIPT_DATA_ARG}

\* C17: an argument whose effective default (declared, from the context or
\* from GlobalState) is a boolean d is a toggle that takes no value and sets
\* the parameter to the negation of d, for d = True (store_false) and for
\* d = False (store_true) alike; a required argument with no default has
\* string type.
C17_BooleanToggles ==
    cli_pc \in {"built", "converted"} =>
        \A i \in Synthesized :
            /\ py_type(script_args[i].default) = "bool" =>
                  script_args[i].action =
                      IF py_bool(script_args[i].default) THEN "store_false"
                                                         ELSE "store_true"
            /\ (script_args[i].required /\ script_args[i].default = None) =>
                  (script_args[i].action = "store" /\ script_args[i].type = "str")

\* C18: the surface holds no synthesized argument for a (node n, parameter
\* p) when p or n_p is in the blacklist or p is injected; and blacklisting
\* n_p leaves the argument of every other node for p in the surface.
C18_SurfaceExclusion ==
    cli_pc \in {"built", "converted"} =>
        \A pr \in Pairs : IsParam(pr) =>
            /\ Excluded(pr) =>
                  \A i \in Synthesized :
                      script_args[i].origin # <<cli_nodes[pr[1]].name, pr[2]>>
            /\ FlatName(pr) \in blacklist_arg =>
                  \A other \in Pairs :
                      (other[1] # pr[1] /\ other[2] = pr[2] /\ OnSurface(other)) =>
                          FlatName(other) \in SurfaceNames

\* a_x is blacklisted and y is injected: nodes a and b both take x, the
\* surface has b_x and neither a_x nor b_y.
C18_Witness ==
    /\ cli_pc = "built"
    /\ blacklist_arg = {<<"a", "x">>} /\ inject = {<<"y">>}
    /\ cli_nodes[1].name = <<"a">> /\ cli_nodes[2].name = <<"b">>
    /\ cli_nodes[1].run_args = <<<<"x">>>> /\ cli_nodes[2].run_args = <<<<"x">>>>
    /\ Len(cli_nodes[2].run_kwargs) = 1
    /\ custom_args = <<>>
    /\ SurfaceNames = {SCRIPT_DATA_ARG, <<"b", "x">>}

(***************************************************************************)
(* SpecSQL: one SQLConnectionNode in one pass of the pipeline.  A          *)
(* connection is known by what the code asks of it: is_sqlalchemy_conn     *)
(* (dialect-style), isinstance sqlite3.Connection (embedded single-file)   *)
(* and hasattr "cursor"; a sqlite3.Connection always has cursor().  Rows   *)
(* are known by the type of rows[0]: a sqlite3.Row ("row"), a dict or a    *)
(* plain tuple.                                                            *)
(***************************************************************************)
Conns == {c \in [present : {TRUE}, sqlalchemy : BOOLEAN, sqlite : BOOLEAN,
                 cursor : BOOLEAN] : c.sqlite => c.cursor}
RowKinds == {"row", "dict", "tuple"}

is_sqlalchemy_conn(conn) == conn.sqlalchemy
is_sqlite_conn(conn) == conn.sqlite
has_cursor(conn) == conn.cursor
has_keys(rows) == rows \in {"row", "dict"}

\* a or b on two optional connections
py_or(a, b) == IF a.present THEN a ELSE b

\* A check that accepts any object.
SQLConnectionNode_check_conn_any(conn) == TRUE

\* SQLConnectionNode.check_conn: TRUE when the assertion holds.
SQLConnectionNode_check_conn(conn) == has_cursor(conn) \/ is_sqlalchemy_conn(conn)

\* BaseSQLConnectionNode.begin
SQL_begin(ctx_conn, gs_conn) ==
    LET conn == py_or(ctx_conn, gs_conn) IN
    IF ~conn.present THEN [ok |-> FALSE, err |-> "AssertionError: requires a conn"]
    ELSE IF ~SQLConnectionNode_check_conn(conn)
    THEN [ok |-> FALSE, err |-> "AssertionError: invalid connection"]
    ELSE [ok |-> TRUE, err |-> "-"]

\* glide.sql_utils.get_bulk_replace(table, columns, dicts, value_string):
\* the placeholder style of the statement.  dicts (default True) says the
\* rows are dict-like and addressed by name: one named placeholder per
\* column; with dicts=False the rows are addressed by position and every
\* column gets the placeholder value_string ("?" in the embedded call, the
\* helper's default marker otherwise).
sql_utils_get_bulk_replace(dicts, value_string) ==
    IF dicts THEN "named"
    ELSE IF value_string = "?" THEN "positional ?" ELSE "positional default"

Positional == {"positional ?", "positional default"}

\* A dispatch that tests for the embedded connection first.
SQLConnectionNode_get_bulk_replace_sqlite_first(conn, rows) ==
    IF is_sqlite_conn(conn)
    THEN IF rows # "row"
         THEN [outcome |-> "AssertionError", placeholders |-> "-"]
         ELSE [outcome |-> "ok",
               placeholders |-> sql_utils_get_bulk_replace(FALSE, "?")]
    ELSE IF is_sqlalchemy_conn(conn)
    THEN IF ~has_keys(rows)
         THEN [outcome |-> "AttributeError", placeholders |-> "-"]
         ELSE [outcome |-> "ok",
               placeholders |-> sql_utils_get_bulk_replace(FALSE, "default")]
    ELSE IF rows = "tuple"
    THEN [outcome |-> "AssertionError", placeholders |-> "-"]
    ELSE [outcome |-> "ok",
          placeholders |-> sql_utils_get_bulk_replace(TRUE, "default")]

\* SQLConnectionNode.get_bulk_replace(conn, table, rows); rows[0].keys() of a
\* plain tuple raises AttributeError.
SQLConnectionNode_get_bulk_replace(conn, rows) ==
    IF is_sqlalchemy_conn(conn)
    THEN IF ~has_keys(rows)
         THEN [outcome |-> "AttributeError", placeholders |-> "-"]
         ELSE [outcome |-> "ok",
               placeholders |-> sql_utils_get_bulk_replace(FALSE, "default")]
    ELSE IF is_sqlite_conn(conn)
    THEN IF rows # "row"
         THEN [outcome |-> "AssertionError", placeholders |-> "-"]
         ELSE [outcome |-> "ok",
               placeholders |-> sql_utils_get_bulk_replace(FALSE, "?")]
    ELSE IF rows = "tuple"
    THEN [outcome |-> "AssertionError", placeholders |-> "-"]
    ELSE [outcome |-> "ok",
          placeholders |-> sql_utils_get_bulk_replace(TRUE, "default")]

SqlInit ==
    /\ sql_context_conn \in Conns \cup {NoConn}
    /\ sql_global_conn \in Conns \cup {NoConn}
    /\ sql_pc = "new"
    /\ sql_err = "-"
    /\ sql_processed = 0
    /\ sql_stmt = NoStmt

\* pipeline.begin(): node.begin()
SqlBegin ==
    /\ sql_pc = "new"
    /\ LET r == SQL_begin(sql_context_conn, sql_global_conn) IN
          /\ sql_pc' = IF r.ok THEN "begun" ELSE "failed"
          /\ sql_err' = r.err
    /\ UNCHANGED <<sql_context_conn, sql_global_conn, sql_processed, sql_stmt>>

\* node.process(rows): a run() that asks for the bulk-replace statement
SqlProcess ==
    /\ sql_pc = "begun"
    /\ sql_processed < MaxItems
    /\ \E rows \in RowKinds :
          LET conn == py_or(sql_context_conn, sql_global_conn)
              r == SQLConnectionNode_get_bulk_replace(conn, rows)
          IN  sql_stmt' = [called |-> TRUE, conn |-> conn, rows |-> rows,
                           outcome |-> r.outcome, placeholders |-> r.placeholders]
    /\ sql_processed' = sql_processed + 1
    /\ UNCHANGED <<sql_context_conn, sql_global_conn, sql_pc, sql_err>>

\* pipeline.end()
SqlEnd ==
    /\ sql_pc = "begun"
    /\ sql_pc' = "ended"
    /\ UNCHANGED <<sql_context_conn, sql_global_conn, sql_err, sql_processed,
                   sql_stmt>>

SqlNext ==
    \/ SqlBegin /\ UNCHANGED exceptSql
    \/ SqlProcess /\ UNCHANGED exceptSql
    \/ SqlEnd /\ UNCHANGED exceptSql

InitSQL ==
    /\ NodeIdle /\ RedIdle /\ ExecIdle
    /\ CleanIdle /\ CliIdle /\ SqlInit /\ PushIdle
SpecSQL == InitSQL /\ [][SqlNext]_vars

C20_FailFastValidation ==
    sql_pc # "new" =>
        LET conn == IF sql_context_conn.present THEN sql_context_conn
                    ELSE sql_global_conn
        IN  /\ (sql_pc = "failed") <=>
                  (~conn.present \/ (~conn.sqlalchemy /\ ~conn.cursor))
            /\ sql_pc = "failed" =>
                  (sql_err # "-" /\ sql_processed = 0 /\ ~sql_stmt.called)
            /\ sql_processed > 0 => sql_pc \in {"begun", "ended"}

\* The connection in GlobalState has no capability at all, none is in the
\* context: begin() has failed.
C20_Witness ==
    /\ sql_pc = "failed"
    /\ ~sql_context_conn.present
    /\ sql_global_conn.present
    /\ ~sql_global_conn.sqlalchemy /\ ~sql_global_conn.cursor
    /\ sql_processed = 0

(***************************************************************************)
(* Properties of one executor call (SpecExec).                             *)
(***************************************************************************)
RECURSIVE Flatten(_)
Flatten(seqs) == IF seqs = <<>> THEN <<>> ELSE Head(seqs) \o Flatten(Tail(seqs))

Payloads == [i \in 1..Len(futures) |-> futures[i].payload]

\* the overrides given for valid node names are in effect in pipeline instance p
OverridesInEffect(p) ==
    \A j \in 1..Len(node_contexts) :
        LET name == node_contexts[j][1]
            upd == node_contexts[j][2] IN
        node_lookup_has(name) =>
            \A key \in DOMAIN upd :
                key \in DOMAIN pipes[p][name] /\ pipes[p][name][key] = upd[key]

\* C3: in a parallel runner, while a worker's pass is in flight the node-context
\* overrides are in effect on the pipeline that worker processes with, whatever
\* the other workers do.
C3_PerPassIsolation ==
    kind \in ParaKinds =>
        \A i \in 1..Len(futures) :
            futures[i].pc = "pass" => OverridesInEffect(futures[i].pipe)

\* C4: once a fan-out push or a parallel consume has returned or raised, every
\* task it submitted has run to its end (none is queued, running or dropped);
\* it returns only when no task failed, and the error it raises for a task is
\* the error of a task that failed.
C4_JoinBeforeReturn ==
    (kind \in ParaKinds \cup PushKinds /\ caller_pc \in {"returned", "raised"}) =>
        /\ \A i \in 1..Len(futures) : Finished(futures[i])
        /\ caller_pc = "returned" => \A i \in 1..Len(futures) : futures[i].pc = "done"
        /\ (caller_pc = "raised" /\ caller_err # "ValueError") =>
               \E i \in 1..Len(futures) :
                   futures[i].pc = "failed" /\ futures[i].err = caller_err

C4_Witness ==
    /\ kind = "ThreadPoolPush" /\ caller_pc = "raised"
    /\ Len(futures) = 3 /\ max_workers = 1
    /\ futures[1].pc = "failed" /\ futures[3].pc = "done"

\* C6: a split-mode push over N downstream stages submits exactly N tasks, task
\* i to stage i with slice i; the slices are contiguous, their lengths differ
\* by at most 1 and their concatenation in order is the item (also when the
\* item is shorter than N).
C6_SplitMode ==
    (kind \in PushKinds /\ split_mode /\ caller_pc # "start") =>
        /\ Len(futures) = n_down
        /\ \A i \in 1..Len(futures) : futures[i].target = i
        /\ Flatten(Payloads) = data
        /\ \A i, j \in 1..Len(futures) :
               Len(futures[i].payload) <= Len(futures[j].payload) + 1

C6_Witness ==
    /\ kind = "ProcessPoolPush" /\ split_mode /\ caller_pc = "await"
    /\ n_down = 3 /\ Len(data) = 2
    /\ Payloads = << <<1>>, <<2>>, <<>> >>

AllOverridesValid ==
    \A j \in 1..Len(node_contexts) : node_lookup_has(node_contexts[j][1])

\* C7: for a Glider.consume call with overrides (all for nodes of the pipeline),
\* the overrides are in effect while the pass runs, and once the call has
\* ended, returned or raised, every overridden node's live context equals its
\* default context.
C7_ContextLifecycle ==
    (kind = "Glider" /\ AllOverridesValid /\ futures # <<>>) =>
        /\ futures[1].pc = "pass" => OverridesInEffect(0)
        /\ caller_pc \in {"returned", "raised"} =>
               \A j \in 1..Len(node_contexts) :
                   pipes[0][node_contexts[j][1]] = node_defaults[node_contexts[j][1]]

SomeOverrideInvalid ==
    \E j \in 1..Len(node_contexts) : ~node_lookup_has(node_contexts[j][1])

\* C23: a Glider.consume call whose overrides contain a key that is no node
\* of the pipeline raises before any item is processed, and once it has
\* raised every node's live context is what it was before the call.
C23_InvalidOverrideLeavesContexts ==
    (kind = "Glider" /\ SomeOverrideInvalid /\ futures # <<>>) =>
        /\ futures[1].pos = 0
        /\ futures[1].pc \notin {"pass", "reset", "done"}
        /\ caller_pc # "returned"
        /\ caller_pc = "raised" =>
               /\ caller_err = "AssertionError"
               /\ pipes[0] = DefaultPipeline

\* the same without the last conjunct: the call fails before any item
\* is processed; holds
C23_FailsBeforeAnyItem ==
    (kind = "Glider" /\ SomeOverrideInvalid /\ futures # <<>>) =>
        /\ futures[1].pos = 0
        /\ futures[1].pc \notin {"pass", "reset", "done"}
        /\ caller_pc # "returned"
        /\ caller_pc = "raised" => caller_err = "AssertionError"

\* C10: a parallel consume of a dataset of length L >= 0 with W workers makes
\* min(L, W) contiguous slices that cover the dataset in order, submits one pass
\* per slice, and when it returns every pass has consumed its whole slice.
C10_Partitioning ==
    (kind \in ParaKinds /\ caller_pc # "start") =>
        /\ caller_err # "ValueError"
        /\ Len(futures) = Min(Len(data), max_workers)
        /\ Flatten(Payloads) = data
        /\ caller_pc = "returned" =>
               \A i \in 1..Len(futures) : futures[i].pos = Len(futures[i].payload)

\* the same for a dataset that is not empty: holds
C10_PartitioningNonEmpty ==
    (kind \in ParaKinds /\ caller_pc # "start" /\ Len(data) > 0) =>
        /\ caller_err # "ValueError"
        /\ Len(futures) = Min(Len(data), max_workers)
        /\ Flatten(Payloads) = data
        /\ \A i, j \in 1..Len(futures) :
               Len(futures[i].payload) <= Len(futures[j].payload) + 1
        /\ caller_pc = "returned" =>
               \A i \in 1..Len(futures) : futures[i].pos = Len(futures[i].payload)

(***************************************************************************)
(* Properties of one node (Spec).  `last` is cleared by every context      *)
(* operation, so in a state where last.called holds, context and           *)
(* global_state are the ones the call resolved against.                    *)
(***************************************************************************)
Present(p) == p \in DOMAIN context \/ p \in DOMAIN global_state
SourceValue(p) == IF p \in DOMAIN context THEN context[p] ELSE global_state[p]
MissingParams == {p \in SeqToSet(run_args) : ~Present(p)}
IndexOf(seq, e) == CHOOSE i \in 1..Len(seq) : seq[i] = e

\* C1: when a required positional parameter is in neither the live context nor
\* GlobalState, process(item) ends in the resolution failure: it names a
\* missing parameter (the first one in contract order), binds no value and
\* calls neither run() nor push().
C1_MissingArgumentFails ==
    (last.called /\ MissingParams # {}) =>
        /\ last.outcome = "MissingArgument"
        /\ last.missing \in MissingParams
        /\ \A i \in 1..(IndexOf(run_args, last.missing) - 1) : Present(run_args[i])
        /\ last.args = <<>> /\ last.kwargs = EmptyDict
        /\ last.run_calls = 0 /\ last.pushed = <<>>

C1_Witness ==
    /\ last.called /\ last.outcome = "MissingArgument"
    /\ run_args = <<"x", "y">> /\ last.missing = "y"
    /\ "x" \in DOMAIN global_state /\ "z" \in DOMAIN context

\* C2 as stated: for every required parameter p that is present in the context
\* or in GlobalState, processing succeeds (here only: resolution does not
\* fail) and p's positional value is the value of its source.
C2_AsStated ==
    last.called =>
        \A i \in 1..Len(run_args) :
            Present(run_args[i]) =>
                /\ last.outcome # "MissingArgument"
                /\ Len(last.args) = Len(run_args)
                /\ last.args[i] = SourceValue(run_args[i])

\* C2 amended: when every required positional parameter is present in the
\* context or in GlobalState, resolution succeeds (no MissingArgument) and
\* the positional values are, in run-contract order, the context's value
\* where the context defines the parameter and GlobalState's value otherwise.
C2_ResolvedFromSources ==
    (last.called /\ \A i \in 1..Len(run_args) : Present(run_args[i])) =>
        /\ last.outcome # "MissingArgument"
        /\ Len(last.args) = Len(run_args)
        /\ \A i \in 1..Len(run_args) : last.args[i] = SourceValue(run_args[i])

C2_Witness ==
    /\ last.called /\ last.outcome = "ok"
    /\ run_args = <<"y", "x">>
    /\ "x" \in DOMAIN context /\ "x" \in DOMAIN global_state
    /\ "y" \notin DOMAIN context
    /\ last.args = <<global_state["y"], context["x"]>>

\* C8: after any update_context calls, reset_context leaves the live context
\* equal to the default context captured at construction (same keys, same
\* values), and update_context never changes the default context.
C8_ResetRestoresDefault ==
    /\ default_context = ctor_kwargs
    /\ ctx_op = "reset" => context = ctor_kwargs

C8_Witness ==
    /\ ctx_op = "reset" /\ n_updates >= 2
    /\ DOMAIN ctor_kwargs = {"x"}

\* The spec's "empty" item: a tabular item with no rows, or a falsy other item.
IsFalsyItem(item) == IF item.pandas THEN item.v = 0 ELSE item.v = 0

\* C9 as stated: a SkipFalseNode called with a falsy item never calls run() and
\* forwards the item once; called with any other item it calls run() once and
\* forwards nothing itself.
C9_AsStated ==
    (last.called /\ node_class = "SkipFalseNode") =>
        IF IsFalsyItem(last.item)
        THEN last.run_calls = 0 /\ last.pushed = <<last.item>>
        ELSE last.run_calls = 1 /\ last.pushed = <<>>

\* C9 amended: the same, for a call whose arguments resolve; a call whose
\* resolution fails (MissingArgument) neither calls run() nor forwards the item.
C9_SkipFalse ==
    (last.called /\ node_class = "SkipFalseNode") =>
        IF last.outcome = "MissingArgument"
        THEN last.run_calls = 0 /\ last.pushed = <<>>
        ELSE IF IsFalsyItem(last.item)
             THEN last.run_calls = 0 /\ last.pushed = <<last.item>>
             ELSE last.run_calls = 1 /\ last.pushed = <<>>

C9_Witness ==
    /\ last.called /\ node_class = "SkipFalseNode" /\ last.outcome = "ok"
    /\ last.item = [pandas |-> TRUE, v |-> 0]
    /\ last.run_calls = 0 /\ last.pushed = <<last.item>>
    /\ run_args = <<"x">>

\* C14: when the binding succeeds, the keyword arguments passed to run() are
\* exactly the context keys that are not required positionals, each with its
\* context value, whether or not run() declares a keyword of that name; no
\* key is passed both ways and GlobalState contributes no keyword.
C14_KeywordPassThrough ==
    (last.called /\ last.outcome # "MissingArgument") =>
        /\ \A k \in Keys :
              /\ k \in DOMAIN last.kwargs <=>
                    (k \in DOMAIN context /\ k \notin SeqToSet(run_args))
              /\ k \in DOMAIN last.kwargs => last.kwargs[k] = context[k]
        /\ DOMAIN last.kwargs \subseteq Keys
        /\ \A k \in DOMAIN global_state \ DOMAIN context :
              k \notin DOMAIN last.kwargs

\* run(item, x): x comes from the context, the undeclared key z is passed as
\* a keyword and the GlobalState key y is not.
C14_Witness ==
    /\ last.called /\ last.outcome = "ok" /\ last.run_calls = 1
    /\ run_args = <<"x">> /\ run_kwargs = <<>>
    /\ "x" \in DOMAIN context /\ "z" \in DOMAIN context
    /\ "y" \in DOMAIN global_state /\ "y" \notin DOMAIN context
    /\ DOMAIN last.kwargs = {"z"}

RowValues == {0, 1}

RECURSIVE SeqsUpTo(_, _)
SeqsUpTo(S, n) ==
    IF n = 0 THEN {<<>>}
    ELSE SeqsUpTo(S, n - 1) \cup
         {Append(t, v) : t \in {u \in SeqsUpTo(S, n - 1) : Len(u) = n - 1}, v \in S}

\* cursor.fetchmany(size): the next rows, size of them unless fewer are left
cursor_fetchmany(rows, size) ==
    [chunk |-> SubSeq(rows, 1, Min(size, Len(rows))),
     rest  |-> SubSeq(rows, Min(size, Len(rows)) + 1, Len(rows))]

\* cursor.fetchall(): all the rows that are left
cursor_fetchall(rows) == [chunk |-> rows, rest |-> <<>>]

\* A loop that pushes the chunk before it tests it.
do_push_turn_push_first(chunk) == [stop |-> chunk = <<>>, pushes |-> <<chunk>>]

\* One turn of the while loop, after the fetch: break on an empty chunk,
\* else push it.
do_push_turn(chunk) ==
    IF chunk = <<>> THEN [stop |-> TRUE, pushes |-> <<>>]
    ELSE [stop |-> FALSE, pushes |-> <<chunk>>]

PushInit ==
    /\ cur_all \in SeqsUpTo(RowValues, MaxRows)
    /\ cur_rows = cur_all
    /\ chunksize \in 0..MaxChunk
    /\ push_pc = "call"
    /\ batches = <<>>
    /\ n_fetches = 0

\* if chunksize: ... else: data = cursor.fetchall(); self.push(data)
DoPushEnter ==
    /\ push_pc = "call"
    /\ IF chunksize # 0
       THEN /\ push_pc' = "loop"
            /\ UNCHANGED <<cur_rows, batches, n_fetches>>
       ELSE /\ cur_rows' = cursor_fetchall(cur_rows).rest
            /\ batches' = Append(batches, cursor_fetchall(cur_rows).chunk)
            /\ n_fetches' = n_fetches + 1
            /\ push_pc' = "done"
    /\ UNCHANGED <<cur_all, chunksize>>

\* one turn of while True
DoPushTurn ==
    /\ push_pc = "loop"
    /\ LET f == cursor_fetchmany(cur_rows, chunksize)
           t == do_push_turn(f.chunk)
       IN  /\ cur_rows' = f.rest
           /\ batches' = batches \o t.pushes
           /\ push_pc' = IF t.stop THEN "done" ELSE "loop"
    /\ n_fetches' = n_fetches + 1
    /\ UNCHANGED <<cur_all, chunksize>>

PushNext ==
    \/ DoPushEnter /\ UNCHANGED exceptPush
    \/ DoPushTurn /\ UNCHANGED exceptPush

InitPush ==
    /\ NodeIdle /\ RedIdle /\ ExecIdle
    /\ CleanIdle /\ CliIdle /\ SqlIdle /\ PushInit
\* do_push is one sequential call: it keeps running until it returns.
SpecPush == InitPush /\ [][PushNext]_vars /\ WF_vars(PushNext)

CeilDiv(a, b) == (a + b - 1) \div b

\* What do_push has pushed, as the claim describes it.
BatchesAsClaimed ==
    /\ Flatten(batches) = cur_all
    /\ IF chunksize # 0
       THEN /\ Len(batches) = CeilDiv(Len(cur_all), chunksize)
            /\ \A i \in 1..Len(batches) :
                  Len(batches[i]) >= 1 /\ Len(batches[i]) <= chunksize
       ELSE Len(batches) = 1

\* C22: do_push terminates; with a chunk size c > 0 and R rows it has then
\* pushed exactly ceil(R / c) batches, each non-empty and of at most c rows,
\* which put together are the cursor's rows in order; with no chunk size it
\* has pushed once, everything, also when there is no row.
C22_CursorPush == <>[](push_pc = "done" /\ BatchesAsClaimed)

\* Three rows in chunks of two: two batches, the second the short one, and
\* a third fetch that finds the cursor empty.
C22_Witness ==
    /\ push_pc = "done"
    /\ chunksize = 2 /\ Len(cur_all) = 3
    /\ Len(batches) = 2 /\ Len(batches[2]) = 1
    /\ n_fetches = 3

====
